---- MODULE Spec2Model ----
(***************************************************************************)
(* Chat page (src/src/pages/Chat.tsx): the Conversation Index `chats`, the *)
(* Message Store `messages`, the active selection `selectedChat`, the      *)
(* backend tables they are fetched from, and the asynchronous handlers     *)
(* (fetchChats, fetchMessages, the push handler, handleChatSelect,         *)
(* handleSendMessage) as in-flight tasks that carry the values their       *)
(* closures captured when they were started.                               *)
(*                                                                         *)
(* Message ids are the backend's insertion numbers and a message's         *)
(* timestamp is its insertion number; a chat's created_at precedes every   *)
(* message timestamp. Spec is the whole page entered with an empty         *)
(* navigation state; SpecStale is the fetch/subscribe effect with its      *)
(* fetches and push handler alone, re-run once more; SpecRequest is        *)
(* handleSendChatRequest with the conversation-list fetch; SpecSelection   *)
(* is every operation that sets or follows the selection; SpecTasks is     *)
(* the Task page (src/unnamed/part_002) with handleCreateTask.             *)
(* SpecActivation and SpecRequestFresh enter the page with any navigation  *)
(* state and with or without a chat in the backend; SpecLifecycle adds the *)
(* teardown of the view; SpecMasked is the MaskedUsername component        *)
(* (src/unnamed/part_000), a username being a sequence of characters.      *)
(***************************************************************************)
EXTENDS Integers, Sequences, FiniteSets, TLC

\* ---------------------------------------------------------------- bounds
MaxMsgs == 2        \* rows the backend messages table may hold
MaxChats == 2       \* rows the backend chats table may hold
MaxTasks == 2       \* asynchronous operations in flight at once
MaxReruns == 1      \* re-runs of the fetch/subscribe effect after mount
MaxBackendTasks == 4   \* rows the backend tasks table may hold
MaxNameLen == 6     \* characters of a username
MaxShowChars == 3   \* largest showChars prop (the Leaderboard passes 3)

\* ------------------------------------------------------------ identities
Me == 0             \* user.id of the signed-in user
NoUser == 0 - 1     \* the '' fallback of `user?.id || ''`
Blank == ""         \* '' as a message body / preview
NoChat == 0         \* selectedChat === null, or "no chat" in a task

VARIABLES
  user,          \* useAuth().user is set
  bChats,        \* backend table chats: bChats[i] = counterpart of chat id i
  bMsgs,         \* backend table messages, in insertion order
  chats,         \* useState<ChatType[]>
  selectedChat,  \* useState<ChatType | null>, as the chat id
  messages,      \* useState<Record<string, MessageType[]>>
  effChats,      \* `chats` as captured by the live fetch/subscribe effect
  effSelected,   \* `selectedChat` as captured by that effect
  activeChatId,  \* location.state?.activeChatId (NoChat when absent)
  tasks,         \* asynchronous operations in flight
  out,           \* read-acknowledgment requests and notices issued by the last step
  reruns,        \* number of effect re-runs so far
  subscriptions, \* the live channel subscriptions: effect run and receiver_id filter
  taskList,      \* Task page: useState<TaskType[]> `tasks`
  bTasks,        \* backend table tasks, in insertion order
  masked         \* MaskedUsername: its props and what rendering it gave

vars == <<user, bChats, bMsgs, chats, selectedChat, messages,
          effChats, effSelected, activeChatId, tasks, out, reruns,
          subscriptions, taskList, bTasks, masked>>

ChatIds == 1..MaxChats

\* ------------------------------------------------------- pure helpers
Req(k, c, m) == [k |-> k, chat |-> c, msg |-> m]

\* An operation in flight: its kind and position (ph), the chat it is
\* about, the rows or payload it holds (data), and what its closure
\* captured: chats (cChats), selectedChat (cSel), location.state.activeChatId
\* (cActive), messages[chat] (cMsgs), and the typed text (content).
Task(kind, ph, c, data, cChats, cSel, cActive, cMsgs, content) ==
  [kind |-> kind, ph |-> ph, chat |-> c, data |-> data,
   cChats |-> cChats, cSel |-> cSel, cActive |-> cActive, cMsgs |-> cMsgs,
   content |-> content]

\* fetchChats() called from an effect run that closed over chats = cChats,
\* selectedChat = cSel and location.state.activeChatId = cActive
FetchChatsTask(cChats, cSel, cActive) ==
  Task("fetchChats", "req", NoChat, <<>>, cChats, cSel, cActive, <<>>, Blank)

\* fetchMessages(c) of the same effect run
FetchMessagesTask(c, cChats, cSel, cActive) ==
  Task("fetchMessages", "req", c, <<>>, cChats, cSel, cActive, <<>>, Blank)

\* the subscription callback started for the inserted row
PushTask(row, cChats, cSel, cActive) ==
  Task("push", "lookup", row.chat_id, <<row>>, cChats, cSel, cActive, <<>>, Blank)

\* handleChatSelect(chat) suspended at one of its awaits
SelectTask(ph, c, cMsgs) ==
  Task("select", ph, c, <<>>, <<>>, NoChat, NoChat, cMsgs, Blank)

\* handleSendMessage(content) suspended at the insert
SendTask(c, content) ==
  Task("send", "req", c, <<>>, <<>>, c, NoChat, <<>>, content)

\* created_at of chat row i; later rows are newer, all before any message
CreatedAt(i) == i - (MaxChats + 1)

\* participantId of the ChatType for chat id c ('' when there is none)
ParticipantOf(c) == IF c \in 1..Len(bChats) THEN bChats[c] ELSE NoUser

RECURSIVE Reverse(_)
Reverse(s) == IF s = <<>> THEN <<>> ELSE Append(Reverse(Tail(s)), Head(s))

\* .from('chats').select(...).order('created_at', {ascending: false}) and
\* the chatData.map of fetchChats
FormatChats(rows) ==
  Reverse([i \in 1..Len(rows) |->
            [id |-> i, participantId |-> rows[i], lastMessage |-> Blank,
             lastMessageTime |-> CreatedAt(i), unreadCount |-> 0]])

\* .from('messages').select(...).eq('chat_id', c).order('timestamp')
RECURSIVE RowsOf(_, _)
RowsOf(rows, c) ==
  IF rows = <<>> THEN <<>>
  ELSE IF Head(rows).chat_id = c
       THEN <<Head(rows)>> \o RowsOf(Tail(rows), c)
       ELSE RowsOf(Tail(rows), c)

\* messageData.map of fetchMessages / handleChatSelect; `partner` is the
\* participantId the closure supplies for the receiver of own messages
FormatMessages(rows, partner) ==
  [i \in 1..Len(rows) |->
    [id |-> rows[i].id, senderId |-> rows[i].sender_id,
     receiverId |-> IF rows[i].sender_id = Me THEN partner ELSE Me,
     content |-> rows[i].content, timestamp |-> rows[i].timestamp,
     read |-> rows[i].read]]

\* formattedMessages.some(m => m.senderId !== user?.id && !m.read)
HasUnreadInbound(ms) ==
  \E i \in 1..Len(ms) : ms[i].senderId # Me /\ ~ms[i].read

\* .update({read: true}).eq('chat_id', c).neq('sender_id', me).eq('read', false)
MarkChatRead(rows, c) ==
  [i \in 1..Len(rows) |->
    IF rows[i].chat_id = c /\ rows[i].sender_id # Me
    THEN [rows[i] EXCEPT !.read = TRUE] ELSE rows[i]]

\* .update({read: true}).eq('id', m)
MarkRowRead(rows, m) ==
  [i \in 1..Len(rows) |->
    IF rows[i].id = m THEN [rows[i] EXCEPT !.read = TRUE] ELSE rows[i]]

\* chats.findIndex(c => c.id === id), 0 for -1
FindIndex(cs, id) ==
  IF \E i \in 1..Len(cs) : cs[i].id = id
  THEN CHOOSE i \in 1..Len(cs) :
         cs[i].id = id /\ \A j \in 1..(i - 1) : cs[j].id # id
  ELSE 0

Ids(ms) == {ms[i].id : i \in 1..Len(ms)}

CountId(ms, m) == Cardinality({i \in 1..Len(ms) : ms[i].id = m})

\* The channel subscribed by effect run `run`: its filter is
\* `receiver_id=eq.${user?.id}`
Subscription(run, withUser) ==
  [run |-> run, filter |-> IF withUser THEN Me ELSE NoUser]

\* MaskedUsername before it is rendered, with props username and showChars
Unrendered(username, showChars) ==
  [username |-> username, showChars |-> showChars, kind |-> "none",
   visiblePart |-> <<>>, hiddenPart |-> 0]

\* No MaskedUsername is on the chat and task pages.
NoMasked == Unrendered(<<>>, 0)

\* ------------------------------------------------------------------ Init
\* State after the first render and its effects: the fetch/subscribe
\* effect has called fetchChats() and subscribed, closing over the initial
\* chats = [] and selectedChat = null; the page was entered with
\* location.state.activeChatId among `actives`. The channel is subscribed
\* whether or not there is a user (filter `receiver_id=eq.${user?.id}`,
\* NoUser standing for the undefined id); fetchChats returns at once
\* without one.
InitWith(actives) ==
  /\ user \in BOOLEAN
  /\ bChats = <<1>>
  /\ bMsgs = <<>>
  /\ chats = <<>>
  /\ selectedChat = NoChat
  /\ messages = [c \in ChatIds |-> <<>>]
  /\ effChats = <<>>
  /\ effSelected = NoChat
  /\ activeChatId \in actives
  /\ tasks = IF user
             THEN {FetchChatsTask(<<>>, NoChat, activeChatId)}
             ELSE {}
  /\ out = {}
  /\ reruns = 0
  /\ subscriptions = {Subscription(0, user)}
  /\ taskList = <<>>
  /\ bTasks = <<>>
  /\ masked = NoMasked

\* The page is entered without an activeChatId in the navigation state.
Init == InitWith({NoChat})

\* content.trim()
Trim(s) == IF s = " " THEN "" ELSE s

Room == Cardinality(tasks) < MaxTasks

SetMessages(c, ms) == [messages EXCEPT ![c] = ms]

\* ------------------------------------------------------------ fetchChats
\* The awaited chats query fails: catch block, toast "Failed to fetch chats".
FetchChatsFail(t) ==
  /\ t \in tasks /\ t.kind = "fetchChats"
  /\ tasks' = tasks \ {t}
  /\ out' = {Req("toastFetchChats", NoChat, 0)}
  /\ UNCHANGED <<masked, subscriptions, taskList, bTasks, user, bChats, bMsgs, chats, selectedChat, messages,
                 effChats, effSelected, activeChatId, reruns>>

\* ChatToOpen that opens the first chat whatever the navigation state names
ChatToOpenFirst(formattedChats, active) ==
  formattedChats[1].id

\* ChatToOpen without the fallback to the first chat of the list
ChatToOpenOrNone(formattedChats, active) ==
  IF active # NoChat /\ FindIndex(formattedChats, active) > 0
  THEN active
  ELSE NoChat

\* The chat fetchChats selects: the one named by location.state.activeChatId
\* when it is in the list, else the first one.
ChatToOpen(formattedChats, active) ==
  IF active # NoChat /\ FindIndex(formattedChats, active) > 0
  THEN active
  ELSE formattedChats[1].id

\* The awaited chats query returns: setChats(formattedChats), select a chat
\* and call fetchMessages for it.
FetchChatsDone(t) ==
  /\ t \in tasks /\ t.kind = "fetchChats"
  /\ LET formattedChats == FormatChats(bChats) IN
     /\ chats' = formattedChats
     /\ IF Len(formattedChats) > 0
        THEN /\ selectedChat' = ChatToOpen(formattedChats, t.cActive)
             /\ tasks' = (tasks \ {t}) \cup
                    {FetchMessagesTask(ChatToOpen(formattedChats, t.cActive),
                                       t.cChats, t.cSel, t.cActive)}
             /\ out' = {}
        ELSE /\ selectedChat' = selectedChat
             /\ tasks' = tasks \ {t}
             /\ out' = {}
  /\ UNCHANGED <<masked, subscriptions, taskList, bTasks, user, bChats, bMsgs, messages, effChats, effSelected, activeChatId, reruns>>

\* --------------------------------------------------------- fetchMessages
\* The backend answers the messages query of fetchMessages with the rows it
\* holds now.
FetchMessagesRespond(t) ==
  /\ t \in tasks /\ t.kind = "fetchMessages" /\ t.ph = "req"
  /\ tasks' = (tasks \ {t}) \cup
              {[t EXCEPT !.ph = "resp", !.data = RowsOf(bMsgs, t.chat)]}
  /\ out' = {}
  /\ UNCHANGED <<masked, subscriptions, taskList, bTasks, user, bChats, bMsgs, chats, selectedChat, messages,
                 effChats, effSelected, activeChatId, reruns>>

\* The messages query of fetchMessages fails: console.error only.
FetchMessagesFail(t) ==
  /\ t \in tasks /\ t.kind = "fetchMessages" /\ t.ph = "req"
  /\ tasks' = tasks \ {t}
  /\ out' = {}
  /\ UNCHANGED <<masked, subscriptions, taskList, bTasks, user, bChats, bMsgs, chats, selectedChat, messages,
                 effChats, effSelected, activeChatId, reruns>>

\* fetchMessages resumes with the rows: setMessages replaces the chat's
\* list, then the bulk read update is sent if an inbound row is unread.
FetchMessagesDone(t) ==
  /\ t \in tasks /\ t.kind = "fetchMessages" /\ t.ph = "resp"
  /\ LET formattedMessages == FormatMessages(t.data, ParticipantOf(t.cSel)) IN
     /\ messages' = SetMessages(t.chat, formattedMessages)
     /\ IF HasUnreadInbound(formattedMessages)
        THEN /\ out' = {Req("ackBatch", t.chat, 0)}
             /\ \E ok \in BOOLEAN :
                  bMsgs' = IF ok THEN MarkChatRead(bMsgs, t.chat) ELSE bMsgs
        ELSE /\ out' = {}
             /\ bMsgs' = bMsgs
  /\ tasks' = tasks \ {t}
  /\ UNCHANGED <<masked, subscriptions, taskList, bTasks, user, bChats, chats, selectedChat, effChats, effSelected, activeChatId,
                 reruns>>

\* ---------------------------------------------------------- push handler
\* newMessage built from the payload
PushMessage(row) ==
  [id |-> row.id, senderId |-> row.sender_id, receiverId |-> Me,
   content |-> row.content, timestamp |-> row.timestamp, read |-> row.read]

\* updatedChats of the push handler: the captured list with entry i replaced
UpdatedChats(cs, i, row, sel) ==
  [cs EXCEPT ![i] =
    [cs[i] EXCEPT
      !.lastMessage = row.content,
      !.lastMessageTime = row.timestamp,
      !.unreadCount = IF sel = row.chat_id THEN 0 ELSE cs[i].unreadCount + 1]]

\* PushDone that sends the acknowledgment first and shows the message only
\* when it succeeded
PushDoneAckFirst(t) ==
  /\ t \in tasks /\ t.kind = "push"
  /\ LET row == t.data[1]
         existingChatIndex == FindIndex(t.cChats, row.chat_id) IN
     IF existingChatIndex > 0 /\ t.cSel = row.chat_id
     THEN /\ out' = {Req("ackOne", row.chat_id, row.id)}
          /\ tasks' = tasks \ {t}
          /\ \E ok \in BOOLEAN :
               IF ok
               THEN /\ bMsgs' = MarkRowRead(bMsgs, row.id)
                    /\ messages' = SetMessages(row.chat_id,
                                     Append(messages[row.chat_id], PushMessage(row)))
                    /\ chats' = UpdatedChats(t.cChats, existingChatIndex, row, t.cSel)
               ELSE /\ bMsgs' = bMsgs
                    /\ messages' = messages
                    /\ chats' = chats
     ELSE /\ messages' = SetMessages(row.chat_id,
                                     Append(messages[row.chat_id], PushMessage(row)))
          /\ bMsgs' = bMsgs
          /\ out' = {}
          /\ IF existingChatIndex > 0
             THEN /\ chats' = UpdatedChats(t.cChats, existingChatIndex, row, t.cSel)
                  /\ tasks' = tasks \ {t}
             ELSE /\ chats' = chats
                  /\ tasks' = (tasks \ {t}) \cup
                              {FetchChatsTask(t.cChats, t.cSel, t.cActive)}
  /\ UNCHANGED <<masked, subscriptions, taskList, bTasks, user, bChats, selectedChat,
                 effChats, effSelected, activeChatId, reruns>>

\* The subscription callback resumes after the sender profile lookup.
PushDone(t) ==
  /\ t \in tasks /\ t.kind = "push"
  /\ LET row == t.data[1]
         existingChatIndex == FindIndex(t.cChats, row.chat_id) IN
     /\ messages' = SetMessages(row.chat_id,
                                Append(messages[row.chat_id], PushMessage(row)))
     /\ IF existingChatIndex > 0
        THEN /\ chats' = UpdatedChats(t.cChats, existingChatIndex, row, t.cSel)
             /\ tasks' = tasks \ {t}
             /\ IF t.cSel = row.chat_id
                THEN /\ out' = {Req("ackOne", row.chat_id, row.id)}
                     /\ \E ok \in BOOLEAN :
                          bMsgs' = IF ok THEN MarkRowRead(bMsgs, row.id)
                                   ELSE bMsgs
                ELSE /\ out' = {}
                     /\ bMsgs' = bMsgs
        ELSE /\ chats' = chats
             /\ bMsgs' = bMsgs
             /\ tasks' = (tasks \ {t}) \cup {FetchChatsTask(t.cChats, t.cSel, t.cActive)}
             /\ out' = {}
  /\ UNCHANGED <<masked, subscriptions, taskList, bTasks, user, bChats, selectedChat, effChats, effSelected, activeChatId, reruns>>

\* ------------------------------------------------------ handleChatSelect
\* FlipRead that marks every message of the list, sent ones included
FlipReadAll(ms) ==
  [i \in 1..Len(ms) |-> [ms[i] EXCEPT !.read = TRUE]]

\* FlipRead with the branches of the conditional exchanged
FlipReadSwapped(ms) ==
  [i \in 1..Len(ms) |->
    [ms[i] EXCEPT !.read = IF ms[i].senderId = Me THEN TRUE ELSE ms[i].read]]

\* messages[chat.id].map(m => ({...m, read: m.senderId === me ? m.read : true}))
FlipRead(ms) ==
  [i \in 1..Len(ms) |->
    [ms[i] EXCEPT !.read = IF ms[i].senderId = Me THEN ms[i].read ELSE TRUE]]

\* chats.map(c => c.id === id ? {...c, unreadCount: 0} : c)
ClearUnread(cs, id) ==
  [i \in 1..Len(cs) |->
    IF cs[i].id = id THEN [cs[i] EXCEPT !.unreadCount = 0] ELSE cs[i]]

\* The part of handleChatSelect from "Mark any unread messages as read" to
\* its await: cMsgs is messages[chat.id] of the render the handler was
\* created in. Sends the bulk update and suspends, or finishes.
SelectMarkRead(c, cMsgs, rest) ==
  IF HasUnreadInbound(cMsgs)
  THEN /\ SelectTask("ack", c, cMsgs) \notin rest
       /\ out' = {Req("ackBatch", c, 0)}
       /\ \E ok \in BOOLEAN :
            bMsgs' = IF ok THEN MarkChatRead(bMsgs, c) ELSE bMsgs
       /\ tasks' = rest \cup {SelectTask("ack", c, cMsgs)}
  ELSE /\ out' = {}
       /\ bMsgs' = bMsgs
       /\ tasks' = rest

\* The user clicks entry i of the chat list: setSelectedChat(chat), then
\* the history query if nothing is cached, else the mark-read part.
Select(i) ==
  /\ i \in 1..Len(chats)
  /\ Room
  /\ LET chat == chats[i] IN
     /\ selectedChat' = chat.id
     /\ IF messages[chat.id] = <<>>
        THEN /\ SelectTask("req", chat.id, messages[chat.id]) \notin tasks
             /\ tasks' = tasks \cup {SelectTask("req", chat.id, messages[chat.id])}
             /\ out' = {}
             /\ bMsgs' = bMsgs
        ELSE SelectMarkRead(chat.id, messages[chat.id], tasks)
  /\ UNCHANGED <<masked, subscriptions, taskList, bTasks, user, bChats, chats, messages, effChats, effSelected, activeChatId, reruns>>

\* The backend answers the history query of handleChatSelect.
SelectRespond(t) ==
  /\ t \in tasks /\ t.kind = "select" /\ t.ph = "req"
  /\ tasks' = (tasks \ {t}) \cup
              {[t EXCEPT !.ph = "resp", !.data = RowsOf(bMsgs, t.chat)]}
  /\ out' = {}
  /\ UNCHANGED <<masked, subscriptions, taskList, bTasks, user, bChats, bMsgs, chats, selectedChat, messages,
                 effChats, effSelected, activeChatId, reruns>>

\* The history query of handleChatSelect fails: console.error, then the
\* mark-read part runs on the captured messages.
SelectFail(t) ==
  /\ t \in tasks /\ t.kind = "select" /\ t.ph = "req"
  /\ SelectMarkRead(t.chat, t.cMsgs, tasks \ {t})
  /\ UNCHANGED <<masked, subscriptions, taskList, bTasks, user, bChats, chats, selectedChat, messages,
                 effChats, effSelected, activeChatId, reruns>>

\* handleChatSelect resumes with the rows: setMessages replaces the chat's
\* list, then the mark-read part runs on the captured messages.
SelectFetched(t) ==
  /\ t \in tasks /\ t.kind = "select" /\ t.ph = "resp"
  /\ messages' = SetMessages(t.chat, FormatMessages(t.data, ParticipantOf(t.chat)))
  /\ SelectMarkRead(t.chat, t.cMsgs, tasks \ {t})
  /\ UNCHANGED <<masked, subscriptions, taskList, bTasks, user, bChats, chats, selectedChat, effChats, effSelected, activeChatId,
                 reruns>>

\* handleChatSelect resumes after the bulk update: local flags are set and
\* the unread count is cleared.
SelectAcked(t) ==
  /\ t \in tasks /\ t.kind = "select" /\ t.ph = "ack"
  /\ messages' = SetMessages(t.chat, FlipRead(messages[t.chat]))
  /\ chats' = ClearUnread(chats, t.chat)
  /\ tasks' = tasks \ {t}
  /\ out' = {}
  /\ UNCHANGED <<masked, subscriptions, taskList, bTasks, user, bChats, bMsgs, selectedChat, effChats, effSelected, activeChatId,
                 reruns>>

\* ----------------------------------------------------- handleSendMessage
Typed == {"", " ", "hi"}

\* chats.map(c => c.id === id ? {...c, lastMessage, lastMessageTime} : c)
TouchChat(cs, id, content, time) ==
  [i \in 1..Len(cs) |->
    IF cs[i].id = id
    THEN [cs[i] EXCEPT !.lastMessage = content, !.lastMessageTime = time]
    ELSE cs[i]]

\* Send that appends a local copy of the message before the insert returns
SendOptimistic(content) ==
  /\ content \in Typed
  /\ IF selectedChat = NoChat \/ ~user \/ Trim(content) = ""
     THEN /\ tasks' = tasks
          /\ out' = {}
          /\ messages' = messages
     ELSE /\ Room
          /\ Len(bMsgs) < MaxMsgs
          /\ SendTask(selectedChat, content) \notin tasks
          /\ tasks' = tasks \cup {SendTask(selectedChat, content)}
          /\ out' = {}
          /\ messages' = SetMessages(selectedChat,
                 Append(messages[selectedChat],
                        [id |-> 0, senderId |-> Me,
                         receiverId |-> ParticipantOf(selectedChat),
                         content |-> content, timestamp |-> 0, read |-> FALSE]))
  /\ UNCHANGED <<masked, subscriptions, taskList, bTasks, user, bChats, bMsgs, chats, selectedChat,
                 effChats, effSelected, activeChatId, reruns>>

\* The user submits `content`: returns at once without a selected chat, a
\* user or a non-blank text, else sends the insert.
Send(content) ==
  /\ content \in Typed
  /\ IF selectedChat = NoChat \/ ~user \/ Trim(content) = ""
     THEN /\ tasks' = tasks
          /\ out' = {}
     ELSE /\ Room
          /\ Len(bMsgs) < MaxMsgs
          /\ SendTask(selectedChat, content) \notin tasks
          /\ tasks' = tasks \cup {SendTask(selectedChat, content)}
          /\ out' = {}
  /\ UNCHANGED <<masked, subscriptions, taskList, bTasks, user, bChats, bMsgs, chats, selectedChat, messages,
                 effChats, effSelected, activeChatId, reruns>>

\* The backend stores the row and answers with it.
SendRespond(t) ==
  /\ t \in tasks /\ t.kind = "send" /\ t.ph = "req"
  /\ Len(bMsgs) < MaxMsgs
  /\ LET row == [id |-> Len(bMsgs) + 1, chat_id |-> t.chat,
                 sender_id |-> Me, receiver_id |-> ParticipantOf(t.chat),
                 content |-> t.content, timestamp |-> Len(bMsgs) + 1,
                 read |-> FALSE] IN
     /\ bMsgs' = Append(bMsgs, row)
     /\ tasks' = (tasks \ {t}) \cup {[t EXCEPT !.ph = "resp", !.data = <<row>>]}
  /\ out' = {}
  /\ UNCHANGED <<masked, subscriptions, taskList, bTasks, user, bChats, chats, selectedChat, messages,
                 effChats, effSelected, activeChatId, reruns>>

\* The insert fails: catch block, toast "Failed to send message".
SendFail(t) ==
  /\ t \in tasks /\ t.kind = "send" /\ t.ph = "req"
  /\ tasks' = tasks \ {t}
  /\ out' = {Req("toastSend", t.chat, 0)}
  /\ UNCHANGED <<masked, subscriptions, taskList, bTasks, user, bChats, bMsgs, chats, selectedChat, messages,
                 effChats, effSelected, activeChatId, reruns>>

\* SendDone that files the message under the conversation selected when the
\* insert returns
SendDoneToSelection(t) ==
  /\ t \in tasks /\ t.kind = "send" /\ t.ph = "resp"
  /\ selectedChat # NoChat
  /\ LET data == t.data[1]
         newMessage == [id |-> data.id, senderId |-> Me,
                        receiverId |-> ParticipantOf(selectedChat),
                        content |-> t.content, timestamp |-> data.timestamp,
                        read |-> FALSE] IN
     /\ messages' = SetMessages(selectedChat,
                                Append(messages[selectedChat], newMessage))
     /\ chats' = TouchChat(chats, selectedChat, t.content, data.timestamp)
  /\ tasks' = tasks \ {t}
  /\ out' = {}
  /\ UNCHANGED <<masked, subscriptions, taskList, bTasks, user, bChats, bMsgs, selectedChat, effChats, effSelected, activeChatId,
                 reruns>>

\* handleSendMessage resumes with the stored row: the message is appended
\* and the chat's preview is updated.
SendDone(t) ==
  /\ t \in tasks /\ t.kind = "send" /\ t.ph = "resp"
  /\ LET data == t.data[1]
         newMessage == [id |-> data.id, senderId |-> Me,
                        receiverId |-> ParticipantOf(t.cSel),
                        content |-> t.content, timestamp |-> data.timestamp,
                        read |-> FALSE] IN
     /\ messages' = SetMessages(t.cSel, Append(messages[t.cSel], newMessage))
     /\ chats' = TouchChat(chats, t.cSel, t.content, data.timestamp)
  /\ tasks' = tasks \ {t}
  /\ out' = {}
  /\ UNCHANGED <<masked, subscriptions, taskList, bTasks, user, bChats, bMsgs, selectedChat, effChats, effSelected, activeChatId,
                 reruns>>

\* ------------------------------------------------ fetch/subscribe effect
\* EffectRerunUpTo whose cleanup leaves the channel subscribed
EffectRerunNoCleanup(n) ==
  /\ subscriptions # {}
  /\ reruns < n
  /\ reruns' = reruns + 1
  /\ effChats' = chats
  /\ effSelected' = selectedChat
  /\ activeChatId' \in {activeChatId, NoChat}
  /\ subscriptions' = subscriptions \cup {Subscription(reruns + 1, user)}
  /\ IF user
     THEN /\ Room
          /\ tasks' = tasks \cup {FetchChatsTask(chats, selectedChat, activeChatId')}
          /\ out' = {}
     ELSE /\ tasks' = tasks
          /\ out' = {}
  /\ UNCHANGED <<masked, taskList, bTasks, user, bChats, bMsgs, chats, selectedChat, messages>>

\* A dependency of the effect ([user, location, toast]) changes identity
\* (the user object, or the location: its state is then kept or replaced by
\* {} as in navigate(location.pathname, {replace: true, state: {}})): the
\* cleanup unsubscribes, the effect runs again in the current render, calls
\* fetchChats() and subscribes a handler closing over the current chats,
\* selectedChat and location.
EffectRerunUpTo(n) ==
  /\ subscriptions # {}
  /\ reruns < n
  /\ reruns' = reruns + 1
  /\ effChats' = chats
  /\ effSelected' = selectedChat
  /\ activeChatId' \in {activeChatId, NoChat}
  /\ subscriptions' = {Subscription(reruns + 1, user)}
  /\ IF user
     THEN /\ Room
          /\ tasks' = tasks \cup {FetchChatsTask(chats, selectedChat, activeChatId')}
          /\ out' = {}
     ELSE /\ tasks' = tasks
          /\ out' = {}
  /\ UNCHANGED <<masked, taskList, bTasks, user, bChats, bMsgs, chats, selectedChat, messages>>

EffectRerun == EffectRerunUpTo(MaxReruns)

\* ------------------------------------------------------------ environment
\* The counterpart of chat c inserts a message for the user; the feed
\* delivers the insert to the live subscription, or loses it.
OtherSends(c, deliver) ==
  /\ user
  /\ c \in 1..Len(bChats)
  /\ Len(bMsgs) < MaxMsgs
  /\ LET row == [id |-> Len(bMsgs) + 1, chat_id |-> c,
                 sender_id |-> bChats[c], receiver_id |-> Me,
                 content |-> "yo", timestamp |-> Len(bMsgs) + 1,
                 read |-> FALSE] IN
     /\ bMsgs' = Append(bMsgs, row)
     /\ IF deliver
        THEN /\ subscriptions # {}
             /\ Room
             /\ tasks' = tasks \cup {PushTask(row, effChats, effSelected, activeChatId)}
             /\ out' = {}
        ELSE /\ tasks' = tasks
             /\ out' = {}
  /\ UNCHANGED <<masked, subscriptions, taskList, bTasks, user, bChats, chats, selectedChat, messages,
                 effChats, effSelected, activeChatId, reruns>>

\* The first user id that has no chat with the current user yet
NewCounterpart ==
  CHOOSE u \in 1..(Len(bChats) + 1) :
    /\ \A i \in 1..Len(bChats) : bChats[i] # u
    /\ \A v \in 1..(u - 1) : \E i \in 1..Len(bChats) : bChats[i] = v

\* Another user, who has no chat with the user yet, opens one: a new chats
\* row.
OtherCreatesChat ==
  /\ user
  /\ Len(bChats) < MaxChats
  /\ bChats' = Append(bChats, NewCounterpart)
  /\ out' = {}
  /\ UNCHANGED <<masked, subscriptions, taskList, bTasks, user, bMsgs, chats, selectedChat, messages,
                 effChats, effSelected, activeChatId, tasks, reruns>>

Next ==
  \/ \E t \in tasks : FetchChatsFail(t)
  \/ \E t \in tasks : FetchChatsDone(t)
  \/ \E t \in tasks : FetchMessagesRespond(t)
  \/ \E t \in tasks : FetchMessagesFail(t)
  \/ \E t \in tasks : FetchMessagesDone(t)
  \/ \E t \in tasks : PushDone(t)
  \/ \E i \in 1..MaxChats : Select(i)
  \/ \E t \in tasks : SelectRespond(t)
  \/ \E t \in tasks : SelectFail(t)
  \/ \E t \in tasks : SelectFetched(t)
  \/ \E t \in tasks : SelectAcked(t)
  \/ \E content \in Typed : Send(content)
  \/ \E t \in tasks : SendRespond(t)
  \/ \E t \in tasks : SendFail(t)
  \/ \E t \in tasks : SendDone(t)
  \/ EffectRerun
  \/ \E c \in ChatIds, deliver \in BOOLEAN : OtherSends(c, deliver)
  \/ OtherCreatesChat

Spec == Init /\ [][Next]_vars

\* The fetch/subscribe effect, its fetches and the push handler alone, with
\* one more re-run of the effect: a handler of an earlier subscription can
\* still be suspended when a later subscription's handler runs.
EffectRerunAgain == EffectRerunUpTo(MaxReruns + 1)

NextStale ==
  \/ \E t \in tasks : FetchChatsDone(t)
  \/ \E t \in tasks : FetchMessagesRespond(t)
  \/ \E t \in tasks : FetchMessagesDone(t)
  \/ \E t \in tasks : PushDone(t)
  \/ EffectRerunAgain
  \/ \E c \in ChatIds, deliver \in BOOLEAN : OtherSends(c, deliver)
  \/ OtherCreatesChat

SpecStale == Init /\ [][NextStale]_vars

\* The view is torn down: the cleanup of the last effect run unsubscribes
\* its channel. Handlers in flight still resume; nothing renders their
\* state updates any more.
Unmount ==
  /\ subscriptions # {}
  /\ subscriptions' = subscriptions \ {Subscription(reruns, user)}
  /\ out' = {}
  /\ UNCHANGED <<masked, taskList, bTasks, user, bChats, bMsgs, chats,
                 selectedChat, messages, effChats, effSelected, activeChatId,
                 tasks, reruns>>

\* The fetch/subscribe effect from mount to teardown.
NextLifecycle ==
  \/ \E t \in tasks : FetchChatsDone(t)
  \/ \E t \in tasks : FetchMessagesRespond(t)
  \/ \E t \in tasks : FetchMessagesDone(t)
  \/ \E t \in tasks : PushDone(t)
  \/ EffectRerunAgain
  \/ \E c \in ChatIds, deliver \in BOOLEAN : OtherSends(c, deliver)
  \/ OtherCreatesChat
  \/ Unmount

SpecLifecycle == Init /\ [][NextLifecycle]_vars

TypeOK ==
  /\ user \in BOOLEAN
  /\ selectedChat \in {NoChat} \cup ChatIds
  /\ Len(bMsgs) <= MaxMsgs
  /\ Cardinality(tasks) <= MaxTasks

\* ------------------------------------------------- handleSendChatRequest
Users == 1..MaxChats     \* ids that have a profiles row
Ghost == MaxChats + 1    \* an id, or the username of one, without a profiles row

\* What the caller passes as `username`: the id (a UUID) or the username of
\* `who`
RequestInputs == [isUUID : BOOLEAN, who : Users \cup {Ghost}]

\* handleSendChatRequest suspended at one of its awaits: `c` is the chats
\* row it holds, cChats the `chats` of the render it was called in
RequestTask(ph, c, input, cChats) ==
  Task("request", ph, c, <<input>>, cChats, NoChat, NoChat, <<>>, Blank)

\* newChat / formattedChat of handleSendChatRequest for chats row c
RequestedChat(c, who) ==
  [id |-> c, participantId |-> who, lastMessage |-> Blank,
   lastMessageTime |-> CreatedAt(c), unreadCount |-> 0]

\* chats.find(c => c.participantId === userId) as the chat id, NoChat for
\* undefined
FindByParticipant(cs, who) ==
  IF \E i \in 1..Len(cs) : cs[i].participantId = who
  THEN cs[CHOOSE i \in 1..Len(cs) :
            cs[i].participantId = who
            /\ \A j \in 1..(i - 1) : cs[j].participantId # who].id
  ELSE NoChat

\* The caller submits `input`: without a user the "Authentication Required"
\* notice; else the profile lookup for a username, or the existing-chat
\* query at once for a UUID.
Request(input) ==
  /\ input \in RequestInputs
  /\ IF ~user
     THEN /\ tasks' = tasks
          /\ out' = {Req("toastAuthRequired", NoChat, 0)}
     ELSE /\ Room
          /\ LET t == RequestTask(IF input.isUUID THEN "check" ELSE "lookup",
                                  NoChat, input, chats) IN
             /\ t \notin tasks
             /\ tasks' = tasks \cup {t}
          /\ out' = {}
  /\ UNCHANGED <<masked, subscriptions, taskList, bTasks, user, bChats, bMsgs, chats,
                 selectedChat, messages, effChats, effSelected, activeChatId,
                 reruns>>

\* RequestLookupFail that shows the notice and carries on to the
\* existing-chat query with the name as the id
RequestLookupFallThrough(t) ==
  /\ t \in tasks /\ t.kind = "request" /\ t.ph = "lookup"
  /\ tasks' = (tasks \ {t}) \cup {[t EXCEPT !.ph = "check"]}
  /\ out' = {Req("toastUserNotFound", NoChat, 0)}
  /\ UNCHANGED <<masked, subscriptions, taskList, bTasks, user, bChats, bMsgs, chats,
                 selectedChat, messages, effChats, effSelected, activeChatId,
                 reruns>>

\* The profile lookup answers with an error (.single() found no row, or
\* the request failed): the "User Not Found" notice, return.
RequestLookupFail(t) ==
  /\ t \in tasks /\ t.kind = "request" /\ t.ph = "lookup"
  /\ tasks' = tasks \ {t}
  /\ out' = {Req("toastUserNotFound", NoChat, 0)}
  /\ UNCHANGED <<masked, subscriptions, taskList, bTasks, user, bChats, bMsgs, chats,
                 selectedChat, messages, effChats, effSelected, activeChatId,
                 reruns>>

\* The profile lookup answers with the row: userId = userData.id, then the
\* existing-chat query is sent.
RequestLookupDone(t) ==
  /\ t \in tasks /\ t.kind = "request" /\ t.ph = "lookup"
  /\ t.data[1].who \in Users
  /\ [t EXCEPT !.ph = "check"] \notin tasks
  /\ tasks' = (tasks \ {t}) \cup {[t EXCEPT !.ph = "check"]}
  /\ out' = {}
  /\ UNCHANGED <<masked, subscriptions, taskList, bTasks, user, bChats, bMsgs, chats,
                 selectedChat, messages, effChats, effSelected, activeChatId,
                 reruns>>

\* The existing-chat query or the insert fails: catch block, the "Failed to
\* create chat" notice.
RequestFail(t) ==
  /\ t \in tasks /\ t.kind = "request" /\ t.ph \in {"check", "insert"}
  /\ tasks' = tasks \ {t}
  /\ out' = {Req("toastCreateChat", NoChat, 0)}
  /\ UNCHANGED <<masked, subscriptions, taskList, bTasks, user, bChats, bMsgs, chats,
                 selectedChat, messages, effChats, effSelected, activeChatId,
                 reruns>>

\* The existing-chat query answers (.limit(1): any one matching row). A
\* row whose chat the captured list holds is opened; for a row it does not
\* hold the participant's profile is requested; without a row the insert
\* is sent.
RequestCheckDone(t) ==
  /\ t \in tasks /\ t.kind = "request" /\ t.ph = "check"
  /\ LET who == t.data[1].who
         existingChats == {i \in 1..Len(bChats) : bChats[i] = who}
         existingChat == FindByParticipant(t.cChats, who) IN
     IF existingChats # {}
     THEN IF existingChat # NoChat
          THEN /\ selectedChat' = existingChat
               /\ tasks' = tasks \ {t}
               /\ out' = {Req("toastChatCreated", existingChat, 0)}
          ELSE /\ \E i \in existingChats :
                    /\ [t EXCEPT !.ph = "profile", !.chat = i] \notin tasks
                    /\ tasks' = (tasks \ {t}) \cup
                                {[t EXCEPT !.ph = "profile", !.chat = i]}
               /\ selectedChat' = selectedChat
               /\ out' = {}
     ELSE /\ [t EXCEPT !.ph = "insert"] \notin tasks
          /\ tasks' = (tasks \ {t}) \cup {[t EXCEPT !.ph = "insert"]}
          /\ selectedChat' = selectedChat
          /\ out' = {}
  /\ UNCHANGED <<masked, subscriptions, taskList, bTasks, user, bChats, bMsgs, chats,
                 messages, effChats, effSelected, activeChatId, reruns>>

\* The backend stores the chats row (user2_id references profiles, so only
\* for an id that has a profile) and answers with it; the participant's
\* profile is requested.
RequestInsertDone(t) ==
  /\ t \in tasks /\ t.kind = "request" /\ t.ph = "insert"
  /\ t.data[1].who \in Users
  /\ Len(bChats) < MaxChats
  /\ bChats' = Append(bChats, t.data[1].who)
  /\ [t EXCEPT !.ph = "profile", !.chat = Len(bChats) + 1] \notin tasks
  /\ tasks' = (tasks \ {t}) \cup
              {[t EXCEPT !.ph = "profile", !.chat = Len(bChats) + 1]}
  /\ out' = {}
  /\ UNCHANGED <<masked, subscriptions, taskList, bTasks, user, bMsgs, chats,
                 selectedChat, messages, effChats, effSelected, activeChatId,
                 reruns>>

\* The profile request returns (its error is not looked at): the chat is
\* put in front of the list and selected, the "Chat Created" notice.
RequestDone(t) ==
  /\ t \in tasks /\ t.kind = "request" /\ t.ph = "profile"
  /\ chats' = <<RequestedChat(t.chat, t.data[1].who)>> \o chats
  /\ selectedChat' = t.chat
  /\ tasks' = tasks \ {t}
  /\ out' = {Req("toastChatCreated", t.chat, 0)}
  /\ UNCHANGED <<masked, subscriptions, taskList, bTasks, user, bChats, bMsgs,
                 messages, effChats, effSelected, activeChatId, reruns>>

\* The chat page with its conversation-list and history fetches and
\* handleSendChatRequest.
NextRequest ==
  \/ \E t \in tasks : FetchChatsDone(t)
  \/ \E t \in tasks : FetchMessagesRespond(t)
  \/ \E t \in tasks : FetchMessagesDone(t)
  \/ \E input \in RequestInputs : Request(input)
  \/ \E t \in tasks : RequestLookupFail(t)
  \/ \E t \in tasks : RequestLookupDone(t)
  \/ \E t \in tasks : RequestFail(t)
  \/ \E t \in tasks : RequestCheckDone(t)
  \/ \E t \in tasks : RequestInsertDone(t)
  \/ \E t \in tasks : RequestDone(t)
  \/ OtherCreatesChat

SpecRequest == Init /\ [][NextRequest]_vars

\* The chat page with every operation that sets or follows the selection:
\* the handlers of Spec and handleSendChatRequest called with an id (as the
\* start-chat effect calls it), on the paths where their backend calls
\* succeed (a failed call ends its handler before any setSelectedChat). The
\* effect is not re-run: every push event finds its captured list empty and
\* re-fetches the conversation list.
NextSelection ==
  \/ \E t \in tasks : FetchChatsDone(t)
  \/ \E t \in tasks : FetchMessagesRespond(t)
  \/ \E t \in tasks : FetchMessagesDone(t)
  \/ \E t \in tasks : PushDone(t)
  \/ \E i \in 1..MaxChats : Select(i)
  \/ \E t \in tasks : SelectRespond(t)
  \/ \E t \in tasks : SelectFetched(t)
  \/ \E t \in tasks : SelectAcked(t)
  \/ \E content \in Typed : Send(content)
  \/ \E t \in tasks : SendRespond(t)
  \/ \E t \in tasks : SendDone(t)
  \/ \E c \in ChatIds, deliver \in BOOLEAN : OtherSends(c, deliver)
  \/ OtherCreatesChat
  \/ \E input \in {r \in RequestInputs : r.isUUID} : Request(input)
  \/ \E t \in tasks : RequestCheckDone(t)
  \/ \E t \in tasks : RequestInsertDone(t)
  \/ \E t \in tasks : RequestDone(t)

SpecSelection == Init /\ [][NextSelection]_vars

\* --------------------------------------------------------- MaskedUsername
Chars == {"a", "b"}
MaxStars == 5

\* The usernames: strings of at most MaxNameLen characters, '' included
Usernames == UNION {[1..n -> Chars] : n \in 0..MaxNameLen}

Min(a, b) == IF a < b THEN a ELSE b

\* username.slice(0, end) for end >= 0
Slice(str, end) == SubSeq(str, 1, Min(end, Len(str)))

\* The component function: the "Unknown" span for a falsy username; else
\* visiblePart and the number of asterisks of hiddenPart. String.repeat
\* throws a RangeError for a negative count.
MaskedUsername(username, showChars) ==
  IF username = <<>>
  THEN [username |-> username, showChars |-> showChars, kind |-> "Unknown",
        visiblePart |-> <<>>, hiddenPart |-> 0]
  ELSE LET visiblePart == Slice(username, showChars)
           count == Min(Len(username) - showChars, MaxStars) IN
       IF count < 0
       THEN [username |-> username, showChars |-> showChars,
             kind |-> "RangeError", visiblePart |-> <<>>, hiddenPart |-> 0]
       ELSE [username |-> username, showChars |-> showChars,
             kind |-> "span", visiblePart |-> visiblePart,
             hiddenPart |-> count]

\* A page holds one MaskedUsername with any username and showChars.
InitMasked ==
  /\ user = FALSE
  /\ bChats = <<>>
  /\ bMsgs = <<>>
  /\ chats = <<>>
  /\ selectedChat = NoChat
  /\ messages = [c \in ChatIds |-> <<>>]
  /\ effChats = <<>>
  /\ effSelected = NoChat
  /\ activeChatId = NoChat
  /\ tasks = {}
  /\ out = {}
  /\ reruns = 0
  /\ subscriptions = {}
  /\ taskList = <<>>
  /\ bTasks = <<>>
  /\ \E username \in Usernames, showChars \in 0..MaxShowChars :
       masked = Unrendered(username, showChars)

\* React renders the component.
Render ==
  /\ masked.kind = "none"
  /\ masked' = MaskedUsername(masked.username, masked.showChars)
  /\ UNCHANGED <<subscriptions, taskList, bTasks, user, bChats, bMsgs, chats,
                 selectedChat, messages, effChats, effSelected, activeChatId,
                 tasks, out, reruns>>

\* The parent passes other props (another row of the Leaderboard).
SetProps(username, showChars) ==
  /\ masked.kind # "none"
  /\ masked' = Unrendered(username, showChars)
  /\ UNCHANGED <<subscriptions, taskList, bTasks, user, bChats, bMsgs, chats,
                 selectedChat, messages, effChats, effSelected, activeChatId,
                 tasks, out, reruns>>

NextMasked ==
  \/ Render
  \/ \E username \in Usernames, showChars \in 0..MaxShowChars :
       SetProps(username, showChars)

SpecMasked == InitMasked /\ [][NextMasked]_vars

\* ------------------------------------------------------------- activation
\* The page is entered by an active user with any navigation state (no
\* activeChatId, or the id of a chat that is or is not in the backend yet)
\* and with or without a chat in the backend.
InitActivation ==
  /\ user = TRUE
  /\ bChats \in {<<>>, <<1>>}
  /\ bMsgs = <<>>
  /\ chats = <<>>
  /\ selectedChat = NoChat
  /\ messages = [c \in ChatIds |-> <<>>]
  /\ effChats = <<>>
  /\ effSelected = NoChat
  /\ activeChatId \in {NoChat} \cup ChatIds
  /\ tasks = {FetchChatsTask(<<>>, NoChat, activeChatId)}
  /\ out = {}
  /\ reruns = 0
  /\ subscriptions = {Subscription(0, TRUE)}
  /\ taskList = <<>>
  /\ bTasks = <<>>
  /\ masked = NoMasked

\* The fetch/subscribe effect with its fetches and push handler, entered
\* with any navigation state.
SpecActivation == InitActivation /\ [][NextStale]_vars

\* handleSendChatRequest with the conversation-list fetch, entered with or
\* without a chat in the backend.
SpecRequestFresh == InitActivation /\ [][NextRequest]_vars

\* ---------------------------------------------------------------- Task page
\* src/unnamed/part_002: the Task page's list `tasks` (taskList here), the
\* backend table tasks (bTasks: the rows created by the user, in insertion
\* order, as their status), and its handlers as operations in flight.
MaxActiveTasks == 3      \* tasks.filter(t => t.status === 'active').length >= 3

\* An operation of the Task page in flight: `row` is the tasks row it is
\* about, cTasks the `tasks` list of the render its handler was created in
TaskOp(kind, ph, row, cTasks) ==
  [kind |-> kind, ph |-> ph, row |-> row, cTasks |-> cTasks]

\* tasks.filter(t => t.status === 'active').length
ActiveCount(ts) == Cardinality({i \in 1..Len(ts) : ts[i].status = "active"})

\* createdTasksData ordered by created_at descending, mapped to TaskType
ProcessedCreatedTasks(rows) ==
  Reverse([i \in 1..Len(rows) |-> [id |-> i, status |-> rows[i]]])

\* The Task page after its first render: fetchUserTasks is in flight and the
\* user has created up to MaxActiveTasks active tasks before.
InitTasks ==
  /\ user = TRUE
  /\ bChats = <<1>>
  /\ bMsgs = <<>>
  /\ chats = <<>>
  /\ selectedChat = NoChat
  /\ messages = [c \in ChatIds |-> <<>>]
  /\ effChats = <<>>
  /\ effSelected = NoChat
  /\ activeChatId = NoChat
  /\ out = {}
  /\ reruns = 0
  /\ subscriptions = {}
  /\ taskList = <<>>
  /\ \E k \in 0..MaxActiveTasks : bTasks = [i \in 1..k |-> "active"]
  /\ tasks = {TaskOp("fetchUserTasks", "req", 0, <<>>)}
  /\ masked = NoMasked

\* fetchUserTasks fails: catch block, the "Failed to fetch tasks" notice.
FetchUserTasksFail(t) ==
  /\ t \in tasks /\ t.kind = "fetchUserTasks"
  /\ tasks' = tasks \ {t}
  /\ out' = {Req("toastFetchTasks", NoChat, 0)}
  /\ UNCHANGED <<masked, subscriptions, taskList, bTasks, user, bChats, bMsgs, chats,
                 selectedChat, messages, effChats, effSelected, activeChatId,
                 reruns>>

\* fetchUserTasks returns: setTasks(processedCreatedTasks).
FetchUserTasksDone(t) ==
  /\ t \in tasks /\ t.kind = "fetchUserTasks"
  /\ taskList' = ProcessedCreatedTasks(bTasks)
  /\ tasks' = tasks \ {t}
  /\ out' = {}
  /\ UNCHANGED <<masked, subscriptions, bTasks, user, bChats, bMsgs, chats,
                 selectedChat, messages, effChats, effSelected, activeChatId,
                 reruns>>

\* The user submits the create form: with MaxActiveTasks active tasks in the
\* list the "Limit Reached" notice, else the insert is sent.
HandleCreateTask ==
  /\ IF ActiveCount(taskList) >= MaxActiveTasks
     THEN /\ tasks' = tasks
          /\ out' = {Req("toastLimitReached", NoChat, 0)}
     ELSE /\ Room
          /\ Len(bTasks) < MaxBackendTasks
          /\ TaskOp("create", "req", 0, taskList) \notin tasks
          /\ tasks' = tasks \cup {TaskOp("create", "req", 0, taskList)}
          /\ out' = {}
  /\ UNCHANGED <<masked, subscriptions, taskList, bTasks, user, bChats, bMsgs, chats,
                 selectedChat, messages, effChats, effSelected, activeChatId,
                 reruns>>

\* The backend stores the tasks row (status 'active') and answers with it.
CreateTaskRespond(t) ==
  /\ t \in tasks /\ t.kind = "create" /\ t.ph = "req"
  /\ Len(bTasks) < MaxBackendTasks
  /\ bTasks' = Append(bTasks, "active")
  /\ [t EXCEPT !.ph = "resp", !.row = Len(bTasks) + 1] \notin tasks
  /\ tasks' = (tasks \ {t}) \cup {[t EXCEPT !.ph = "resp", !.row = Len(bTasks) + 1]}
  /\ out' = {}
  /\ UNCHANGED <<masked, subscriptions, taskList, user, bChats, bMsgs, chats,
                 selectedChat, messages, effChats, effSelected, activeChatId,
                 reruns>>

\* The insert fails: catch block, the "Failed to create task" notice.
CreateTaskFail(t) ==
  /\ t \in tasks /\ t.kind = "create" /\ t.ph = "req"
  /\ tasks' = tasks \ {t}
  /\ out' = {Req("toastCreateTask", NoChat, 0)}
  /\ UNCHANGED <<masked, subscriptions, taskList, bTasks, user, bChats, bMsgs, chats,
                 selectedChat, messages, effChats, effSelected, activeChatId,
                 reruns>>

\* handleCreateTask resumes with the row: setTasks([newTask, ...tasks]) with
\* the list it closed over, the "Task Created" notice.
CreateTaskDone(t) ==
  /\ t \in tasks /\ t.kind = "create" /\ t.ph = "resp"
  /\ taskList' = <<[id |-> t.row, status |-> "active"]>> \o t.cTasks
  /\ tasks' = tasks \ {t}
  /\ out' = {Req("toastTaskCreated", NoChat, t.row)}
  /\ UNCHANGED <<masked, subscriptions, bTasks, user, bChats, bMsgs, chats,
                 selectedChat, messages, effChats, effSelected, activeChatId,
                 reruns>>

\* The user cancels entry i of the list: the update to 'completed' is sent.
HandleCancelTask(i) ==
  /\ i \in 1..Len(taskList)
  /\ Room
  /\ TaskOp("cancel", "req", taskList[i].id, taskList) \notin tasks
  /\ tasks' = tasks \cup {TaskOp("cancel", "req", taskList[i].id, taskList)}
  /\ out' = {}
  /\ UNCHANGED <<masked, subscriptions, taskList, bTasks, user, bChats, bMsgs, chats,
                 selectedChat, messages, effChats, effSelected, activeChatId,
                 reruns>>

\* The update fails: catch block, the "Failed to cancel task" notice.
CancelTaskFail(t) ==
  /\ t \in tasks /\ t.kind = "cancel"
  /\ tasks' = tasks \ {t}
  /\ out' = {Req("toastCancelTask", NoChat, t.row)}
  /\ UNCHANGED <<masked, subscriptions, taskList, bTasks, user, bChats, bMsgs, chats,
                 selectedChat, messages, effChats, effSelected, activeChatId,
                 reruns>>

\* The backend sets the row to 'completed' and handleCancelTask resumes:
\* setTasks(tasks.map(...)) with the list it closed over.
CancelTaskDone(t) ==
  /\ t \in tasks /\ t.kind = "cancel"
  /\ bTasks' = [bTasks EXCEPT ![t.row] = "completed"]
  /\ taskList' = [i \in 1..Len(t.cTasks) |->
                   IF t.cTasks[i].id = t.row
                   THEN [t.cTasks[i] EXCEPT !.status = "completed"]
                   ELSE t.cTasks[i]]
  /\ tasks' = tasks \ {t}
  /\ out' = {Req("toastTaskCancelled", NoChat, t.row)}
  /\ UNCHANGED <<masked, subscriptions, user, bChats, bMsgs, chats,
                 selectedChat, messages, effChats, effSelected, activeChatId,
                 reruns>>

NextTasks ==
  \/ \E t \in tasks : FetchUserTasksFail(t)
  \/ \E t \in tasks : FetchUserTasksDone(t)
  \/ HandleCreateTask
  \/ \E t \in tasks : CreateTaskRespond(t)
  \/ \E t \in tasks : CreateTaskFail(t)
  \/ \E t \in tasks : CreateTaskDone(t)
  \/ \E i \in 1..MaxBackendTasks : HandleCancelTask(i)
  \/ \E t \in tasks : CancelTaskFail(t)
  \/ \E t \in tasks : CancelTaskDone(t)

SpecTasks == InitTasks /\ [][NextTasks]_vars

\* ------------------------------------------------------------ properties
\* unreadCount of the entry for chat id in the list cs (0 when absent)
UnreadOf(cs, id) ==
  IF FindIndex(cs, id) > 0 THEN cs[FindIndex(cs, id)].unreadCount ELSE 0

\* C1: the Message Store sequence of every conversation contains each
\* message id exactly once.
C1_EachIdOnce ==
  \A c \in ChatIds : \A m \in Ids(messages[c]) : CountId(messages[c], m) = 1

\* C2: a message whose local read flag is true is never shown with
\* read = false in a later state (stated for steps between stores that hold
\* each id once, so that a duplicate entry of C1 is not what breaks it).
C2_ReadMonotonic ==
  [][\A c \in ChatIds : \A i \in 1..Len(messages[c]) :
       (messages[c][i].read
          /\ CountId(messages[c], messages[c][i].id) = 1
          /\ CountId(messages'[c], messages[c][i].id) = 1) =>
         \A j \in 1..Len(messages'[c]) :
           messages'[c][j].id = messages[c][i].id => messages'[c][j].read]_vars

\* C3: a push event for a conversation that is not in the Conversation
\* Index starts a conversation-list re-fetch and leaves the index as it is.
C3_UnknownChatRefetch ==
  [][\A t \in tasks :
       (PushDone(t) /\ FindIndex(chats, t.chat) = 0) =>
         /\ FetchChatsTask(t.cChats, t.cSel, t.cActive) \in tasks'
         /\ chats' = chats]_vars

\* C4: a push event for a conversation that is in the Conversation Index
\* sets that entry's preview and time to the event's content and timestamp
\* and starts no conversation-list re-fetch.
C4_KnownChatUpdated ==
  [][\A t \in tasks :
       (PushDone(t) /\ FindIndex(chats, t.chat) > 0) =>
         /\ FindIndex(chats', t.chat) > 0
         /\ chats'[FindIndex(chats', t.chat)].lastMessage = t.data[1].content
         /\ chats'[FindIndex(chats', t.chat)].lastMessageTime = t.data[1].timestamp
         /\ tasks' \subseteq tasks]_vars

\* C5: right after a push event for the active conversation has been
\* handled, that conversation's unread count is 0 and a read-acknowledgment
\* for the message has been issued.
C5_ActiveChatAcked ==
  [][\A t \in tasks :
       (PushDone(t) /\ selectedChat = t.chat) =>
         /\ UnreadOf(chats', t.chat) = 0
         /\ Req("ackOne", t.chat, t.data[1].id) \in out']_vars

\* C6: a push event for a known conversation that is not the active
\* selection raises its unread count by exactly one.
C6_UnreadIncrement ==
  [][\A t \in tasks :
       (PushDone(t) /\ FindIndex(chats, t.chat) > 0 /\ selectedChat # t.chat) =>
         /\ FindIndex(chats', t.chat) > 0
         /\ UnreadOf(chats', t.chat) = UnreadOf(chats, t.chat) + 1]_vars

\* C7: the conversation that is the active selection has unread count 0
\* (stated for the states in which no handleChatSelect is still suspended,
\* so that the moment between setSelectedChat and the clearing of the count
\* is not what breaks it).
C7_ActiveUnreadZero ==
  (selectedChat # NoChat /\ \A t \in tasks : t.kind # "select")
    => UnreadOf(chats, selectedChat) = 0

\* C8: selecting a conversation whose cached messages include unread inbound
\* messages issues one batched read-acknowledgment for that conversation,
\* and when the handler resumes every inbound message of the conversation
\* is locally read and its unread count is 0.
C8_SelectMarksRead ==
  [][/\ \A i \in 1..Len(chats) :
          (Select(i) /\ HasUnreadInbound(messages[chats[i].id])) =>
            /\ out' = {Req("ackBatch", chats[i].id, 0)}
            /\ SelectTask("ack", chats[i].id, messages[chats[i].id]) \in tasks'
     /\ \A t \in tasks :
          SelectAcked(t) =>
            /\ ~HasUnreadInbound(messages'[t.chat])
            /\ Ids(messages'[t.chat]) = Ids(messages[t.chat])
            /\ UnreadOf(chats', t.chat) = 0]_vars

\* C8 witness: handleChatSelect is suspended at the batched update it issued
\* for the selected conversation, whose cached messages are all unread inbound.
C8_Witness ==
  \E t \in tasks :
    /\ t.kind = "select" /\ t.ph = "ack" /\ selectedChat = t.chat
    /\ out = {Req("ackBatch", t.chat, 0)}
    /\ Len(messages[t.chat]) = MaxMsgs
    /\ \A i \in 1..Len(messages[t.chat]) :
         messages[t.chat][i].senderId # Me /\ ~messages[t.chat][i].read

\* C9: when handleChatSelect has fetched a history that contains unread
\* inbound messages, it issues the batched read-acknowledgment.
C9_FetchedThenMarked ==
  [][\A t \in tasks :
       (SelectFetched(t) /\ HasUnreadInbound(messages'[t.chat])) =>
         Req("ackBatch", t.chat, 0) \in out']_vars

\* C10: a failed insert of handleSendMessage leaves the Message Store and
\* the Conversation Index as they are and produces the error notice; the
\* call itself and the backend's answer add no local copy either.
C10_SendFailureNoCopy ==
  [][/\ \A t \in tasks :
          SendFail(t) =>
            /\ messages' = messages /\ chats' = chats
            /\ Req("toastSend", t.chat, 0) \in out'
     /\ (\E content \in Typed : Send(content)) =>
            messages' = messages /\ chats' = chats
     /\ \A t \in tasks :
          SendRespond(t) => messages' = messages /\ chats' = chats]_vars

\* C10 witness: the error notice of a failed send is showing while the
\* Message Store already holds messages.
C10_Witness ==
  /\ \E c \in ChatIds : Req("toastSend", c, 0) \in out /\ messages[c] # <<>>
  /\ selectedChat # NoChat

\* C11: when the profile lookup of handleSendChatRequest cannot resolve the
\* username, the request ends there: no chats row is inserted, the
\* Conversation Index and the active selection stay as they are, and the
\* "User Not Found" notice is produced.
C11_LookupFailureNoChat ==
  [][\A t \in tasks :
       RequestLookupFail(t) =>
         /\ bChats' = bChats /\ chats' = chats /\ selectedChat' = selectedChat
         /\ Req("toastUserNotFound", NoChat, 0) \in out'
         /\ \A u \in tasks' : u.kind = "request" => u \in tasks]_vars

\* C11 witness: the "User Not Found" notice is showing on a page that has a
\* conversation list and a selection, and no request is left in flight.
C11_Witness ==
  /\ Req("toastUserNotFound", NoChat, 0) \in out
  /\ chats # <<>> /\ selectedChat # NoChat
  /\ \A t \in tasks : t.kind # "request"

\* C12: while there is no active user nothing of the page has reached the
\* backend: no operation is in flight, no channel subscription is open, and
\* the Conversation Index, the Message Store and the selection are empty.
C12_NoUserNoBackend ==
  ~user =>
    /\ tasks = {} /\ subscriptions = {}
    /\ chats = <<>> /\ selectedChat = NoChat
    /\ \A c \in ChatIds : messages[c] = <<>>

\* C13: a message-history fetch that fails, in fetchMessages or in
\* handleChatSelect, produces a notice, leaves the Message Store as it is
\* and starts no new history fetch.
C13_FetchFailureNotice ==
  [][\A t \in tasks :
       (FetchMessagesFail(t) \/ SelectFail(t)) =>
         /\ \E r \in out' : r.k \notin {"ackBatch", "ackOne"}
         /\ messages' = messages
         /\ \A u \in tasks' :
              (u.kind \in {"fetchMessages", "select"} /\ u.ph = "req")
                => u \in tasks]_vars

\* C14: the Message Store sequence of every conversation is ordered by
\* timestamp ascending.
C14_TimestampOrder ==
  \A c \in ChatIds : \A i, j \in 1..Len(messages[c]) :
    i < j => messages[c][i].timestamp <= messages[c][j].timestamp

\* C15: a message id held in a conversation's Message Store sequence is
\* still held there after every step.
C15_AppendOnly ==
  [][\A c \in ChatIds : Ids(messages[c]) \subseteq Ids(messages'[c])]_vars

\* C16: once the fetch/subscribe effect has been cleaned up and re-run, a
\* fetch or a push handler started by an earlier run (it holds captures
\* other than those of the live run) no longer changes the Conversation
\* Index, the Message Store or the active selection when it completes.
C16_StaleCompletionDiscarded ==
  [][\A t \in tasks :
       (/\ reruns > 0
        /\ <<t.cChats, t.cSel, t.cActive>> # <<effChats, effSelected, activeChatId>>
        /\ (FetchChatsDone(t) \/ FetchMessagesDone(t) \/ PushDone(t))) =>
         /\ chats' = chats
         /\ messages' = messages
         /\ selectedChat' = selectedChat]_vars

\* C17: for a message id held in the Message Store before and after a step,
\* the sender, receiver, body and timestamp stored with it are the same
\* (stated for ids held once before and after, so that a duplicate entry
\* of C1 is not what breaks it).
C17_MessageImmutable ==
  [][\A c \in ChatIds :
       \A i \in 1..Len(messages[c]) : \A j \in 1..Len(messages'[c]) :
         (/\ messages[c][i].id = messages'[c][j].id
          /\ CountId(messages[c], messages[c][i].id) = 1
          /\ CountId(messages'[c], messages[c][i].id) = 1) =>
           /\ messages[c][i].senderId = messages'[c][j].senderId
           /\ messages[c][i].receiverId = messages'[c][j].receiverId
           /\ messages[c][i].content = messages'[c][j].content
           /\ messages[c][i].timestamp = messages'[c][j].timestamp]_vars

\* C18: when the push handler has run, the event's message is in the Message
\* Store; and when the acknowledgment it issued has failed (the row is still
\* unread on the backend), the message is shown all the same, the
\* conversation's entry carries the event's preview, the backend is as it
\* was, no notice is produced and the handler has ended.
C18_AckFailureHarmless ==
  [][\A t \in tasks :
       PushDone(t) =>
         /\ t.data[1].id \in Ids(messages'[t.chat])
         /\ (Req("ackOne", t.chat, t.data[1].id) \in out' /\ bMsgs' = bMsgs) =>
              /\ Len(messages'[t.chat]) = Len(messages[t.chat]) + 1
              /\ chats'[FindIndex(chats', t.chat)].lastMessage = t.data[1].content
              /\ out' = {Req("ackOne", t.chat, t.data[1].id)}
              /\ tasks' = tasks \ {t}]_vars

\* C18 witness: the acknowledgment for a pushed message has just been issued
\* and has failed (its row is still unread on the backend) while the message
\* is shown in the selected conversation.
C18_Witness ==
  \E c \in ChatIds : \E i \in 1..Len(bMsgs) :
    /\ out = {Req("ackOne", c, bMsgs[i].id)}
    /\ ~bMsgs[i].read
    /\ bMsgs[i].id \in Ids(messages[c])
    /\ selectedChat = c

\* C19: the user has at most MaxActiveTasks active created tasks, on the
\* backend and in the page's list.
C19_ActiveTaskLimit ==
  /\ Cardinality({i \in 1..Len(bTasks) : bTasks[i] = "active"}) <= MaxActiveTasks
  /\ ActiveCount(taskList) <= MaxActiveTasks

\* C20: once a conversation is the active selection, every step leaves some
\* conversation selected.
C20_SelectionNeverCleared ==
  [][selectedChat # NoChat => selectedChat' # NoChat]_vars

\* C20 witness: a conversation that handleSendChatRequest created is the
\* active selection after another conversation had been selected and had
\* received messages.
C20_Witness ==
  /\ selectedChat = MaxChats
  /\ Req("toastChatCreated", MaxChats, 0) \in out
  /\ Len(chats) >= 2
  /\ messages[1] # <<>>

\* C21: when fetchChats returns a non-empty list, the selection becomes the
\* conversation its navigation state names if that id is listed and the
\* first listed conversation otherwise, and the one history fetch it starts
\* is for that conversation; with an empty list the selection is left as
\* it is and no history fetch is started.
C21_ActivationSelects ==
  [][\A t \in tasks :
       FetchChatsDone(t) =>
         LET listed == {chats'[i].id : i \in 1..Len(chats')}
             started == {u \in tasks' \ tasks : u.kind = "fetchMessages"} IN
         /\ Len(chats') = Len(bChats)
         /\ IF Len(bChats) > 0
            THEN /\ selectedChat' = IF t.cActive \in listed THEN t.cActive
                                    ELSE chats'[1].id
                 /\ \A u \in started : u.chat = selectedChat' /\ u.ph = "req"
                 /\ \E u \in tasks' :
                      u.kind = "fetchMessages" /\ u.chat = selectedChat'
                      /\ u.ph = "req"
            ELSE /\ selectedChat' = selectedChat
                 /\ started = {}]_vars

\* C21 witness: the conversation named by the navigation state, which is
\* not the first of the list, is selected and its history fetch is in
\* flight.
C21_Witness ==
  /\ Len(chats) = 2 /\ chats[1].id # activeChatId
  /\ selectedChat = activeChatId /\ selectedChat # NoChat
  /\ \E u \in tasks : u.kind = "fetchMessages" /\ u.chat = selectedChat

\* C22: the read reconciliation at the end of handleChatSelect leaves the
\* lists of all other conversations as they are, keeps the length and order
\* of the selected conversation's list, leaves every message sent by the
\* current user as it is, and changes at most the read flag of the others.
C22_SelectFlipsOnlyInbound ==
  [][\A t \in tasks :
       SelectAcked(t) =>
         /\ \A c \in ChatIds \ {t.chat} : messages'[c] = messages[c]
         /\ Len(messages'[t.chat]) = Len(messages[t.chat])
         /\ \A i \in 1..Len(messages[t.chat]) :
              LET old == messages[t.chat][i]
                  new == messages'[t.chat][i] IN
              /\ old.senderId = Me => new = old
              /\ [new EXCEPT !.read = old.read] = old]_vars

\* C22 witness: after a reconciliation whose backend update failed, the
\* selected conversation holds a message of the counterpart that is read
\* locally and unread in the backend, next to an unread message sent by the
\* current user.
C22_Witness ==
  \E c \in ChatIds :
    /\ \E i \in 1..Len(messages[c]) :
         /\ messages[c][i].senderId # Me /\ messages[c][i].read
         /\ \E j \in 1..Len(bMsgs) :
              bMsgs[j].id = messages[c][i].id /\ ~bMsgs[j].read
    /\ \E i \in 1..Len(messages[c]) :
         messages[c][i].senderId = Me /\ ~messages[c][i].read

\* C23: a rendered MaskedUsername with a non-empty username is the span
\* with the first showChars characters of the username (all of them when
\* it is shorter) followed by min(length - showChars, 5) asterisks, never
\* fewer than 0, and rendering raised no error.
C23_MaskedStars ==
  (masked.kind # "none" /\ masked.username # <<>>) =>
    /\ masked.kind = "span"
    /\ masked.visiblePart =
         [i \in 1..(IF masked.showChars < Len(masked.username)
                    THEN masked.showChars ELSE Len(masked.username))
            |-> masked.username[i]]
    /\ masked.hiddenPart \in 0..5
    /\ masked.hiddenPart =
         (IF Len(masked.username) - masked.showChars < 0 THEN 0
          ELSE IF Len(masked.username) - masked.showChars > 5 THEN 5
          ELSE Len(masked.username) - masked.showChars)

\* C24: a conversation-list re-fetch started by the push handler leaves the
\* active selection as it is. Before the effect has re-run, the only
\* fetchChats that can complete while a conversation is selected is one
\* the push handler started (the activation fetch is what selected it).
C24_PushKeepsSelection ==
  [][\A t \in tasks :
       (FetchChatsDone(t) /\ reruns = 0 /\ selectedChat # NoChat) =>
         selectedChat' = selectedChat]_vars

\* C25: a conversation-list re-fetch leaves the unread count and the
\* last-message preview of every conversation that is not the selected one
\* as they are: the count does not decrease and a preview is not cleared.
C25_RefetchKeepsSummaries ==
  [][\A t \in tasks :
       (FetchChatsDone(t) /\ reruns = 0 /\ selectedChat # NoChat) =>
         \A i \in 1..Len(chats) :
           (chats[i].id # selectedChat /\ chats[i].id # selectedChat') =>
             \E j \in 1..Len(chats') :
               /\ chats'[j].id = chats[i].id
               /\ chats'[j].unreadCount >= chats[i].unreadCount
               /\ chats[i].lastMessage # Blank =>
                    chats'[j].lastMessage # Blank]_vars

\* C26: the Conversation Index holds no two entries with the same
\* conversation id and no two entries with the same counterpart.
C26_IndexEntriesUnique ==
  \A i, j \in 1..Len(chats) :
    i # j => /\ chats[i].id # chats[j].id
             /\ chats[i].participantId # chats[j].participantId

\* C27: the backend holds at most one chats row for the current user and
\* any one counterpart.
C27_OneRowPerPair ==
  \A i, j \in 1..Len(bChats) : i # j => bChats[i] # bChats[j]

\* C28: when handleSendMessage resumes with the stored row, the message is
\* appended once, at the end, to the list of the conversation the row was
\* inserted for, whatever the selection is by then; the lists of all other
\* conversations and the unread count of every conversation stay as they
\* are.
C28_SendAppendsToInsertChat ==
  [][\A t \in tasks :
       SendDone(t) =>
         LET row == t.data[1]
             c == row.chat_id IN
         /\ Len(messages'[c]) = Len(messages[c]) + 1
         /\ SubSeq(messages'[c], 1, Len(messages[c])) = messages[c]
         /\ messages'[c][Len(messages'[c])].id = row.id
         /\ messages'[c][Len(messages'[c])].senderId = row.sender_id
         /\ messages'[c][Len(messages'[c])].content = row.content
         /\ \A d \in ChatIds \ {c} : messages'[d] = messages[d]
         /\ Len(chats') = Len(chats)
         /\ \A i \in 1..Len(chats) :
              /\ chats'[i].id = chats[i].id
              /\ chats'[i].unreadCount = chats[i].unreadCount]_vars

\* C28 witness: a message the user sent is held once, in the list of the
\* conversation its row names, while another conversation is selected and
\* no send is in flight.
C28_Witness ==
  \E c \in ChatIds :
    /\ selectedChat # NoChat /\ selectedChat # c
    /\ \A t \in tasks : t.kind # "send"
    /\ \E i \in 1..Len(messages[c]) :
         /\ messages[c][i].senderId = Me
         /\ CountId(messages[c], messages[c][i].id) = 1
         /\ \E j \in 1..Len(bMsgs) :
              bMsgs[j].id = messages[c][i].id /\ bMsgs[j].chat_id = c

\* C29: a step issues the batched read update for a conversation only when
\* the list it holds for that conversation has an unread message of the
\* counterpart, and the per-message read update of the push handler only
\* for an event of the conversation that is the active selection.
C29_AckOnlyWhenDue ==
  [][\A r \in out' :
       /\ r.k = "ackBatch" => HasUnreadInbound(messages'[r.chat])
       /\ r.k = "ackOne" => r.chat = selectedChat']_vars

\* C30: at most one channel subscription is live before and after every
\* step; a re-run of the effect leaves live only the subscription of the
\* new run; teardown leaves none, and none appears after it.
C30_OneLiveSubscription ==
  [][/\ Cardinality(subscriptions) <= 1
     /\ Cardinality(subscriptions') <= 1
     /\ EffectRerunAgain =>
          /\ subscriptions' \cap subscriptions = {}
          /\ \A sub \in subscriptions' : sub.run = reruns'
     /\ Unmount => subscriptions' = {}
     /\ subscriptions = {} => subscriptions' = {}]_vars

\* C30 witness: the view was torn down after the effect had re-run, and no
\* subscription is left.
C30_Witness ==
  subscriptions = {} /\ reruns > 0

====
